---- MODULE Spec2Model ----
(***************************************************************************)
(* Model of the three command-line tools of speech-to-text-tools:          *)
(*   video_converter.py  (transcoding),                                    *)
(*   audio_splitter.py   (segmenting),                                     *)
(*   transcribe.py       (transcribing, progress animation, unifying).     *)
(* File names are sequences of one-character strings, so that the suffix,  *)
(* prefix and splitext computations of the code are computed, not assumed. *)
(***************************************************************************)
EXTENDS Integers, Sequences, FiniteSets, TLC

VARIABLES
    folder,      \* the entries of the input folder, in the order os.listdir gives
    outDir,      \* names of the files in the output directory (converter, splitter)
    runNo,       \* how many program runs have been started
    args,        \* the parsed command line of the current run
    prev,        \* the command line and the log of the previous run
    pc,          \* position of the main thread
    items,       \* video_files / audio_files / txt_files of the current run
    idx,         \* 1-based position of the loop in items
    log,         \* invocations of the external operation in this run
    outcomes,    \* what actually happened to each item of this run
    cnt,         \* the counters of main(): successful, failed, skipped / total_segments
    report,      \* the summary printed at the end of the run
    seg,         \* splitter: duration, num_segments and i of the item in progress
    hb,          \* transcribe: position of each progress thread
    stopEv,      \* transcribe: the stop_progress event of each progress thread
    term,        \* transcribe: the writes to the terminal, in order
    joinedAt,    \* transcribe: length of term when join() of each thread returned
    unified,     \* transcribe: unified_transcripts of the current run
    written,     \* the unified documents written so far: name and run
    clock        \* wall clock, in seconds

vars == <<folder, outDir, runNo, args, prev, pc, items, idx, log, outcomes, cnt,
          report, seg, hb, stopEv, term, joinedAt, unified, written, clock>>

----------------------------------------------------------------------------
(* Bounds *)

MaxFiles == 3       \* files in the input folder at the start
MaxRuns == 2        \* program runs in one behaviour
MaxFrames == 2      \* animation frames one progress thread draws
MaxClock == 1       \* last clock second
MaxTxt == 2         \* transcripts in the folder at the start (unify)

----------------------------------------------------------------------------
(* Strings *)

\* The characters that occur in the modelled file names, in code point order.
Ascii ==
    << ".", "0", "1", "2", "3", "4", "5", "6", "7", "8", "9",
       "A", "B", "M", "P", "T", "X",
       "_", "a", "b", "c", "d", "e", "f", "g", "i", "k", "l", "m", "n", "o", "p",
       "r", "s", "t", "u", "v", "w", "x" >>

Ord(c) == CHOOSE i \in 1..Len(Ascii) : Ascii[i] = c

\* str.lower() on one character
LowerChar(c) ==
    CASE c = "A" -> "a" [] c = "B" -> "b" [] c = "M" -> "m" [] c = "P" -> "p"
      [] c = "T" -> "t" [] c = "X" -> "x" [] OTHER -> c

\* str.lower()
Lower(s) == [i \in 1..Len(s) |-> LowerChar(s[i])]

\* str.startswith(p)
StartsWith(s, p) == Len(p) <= Len(s) /\ SubSeq(s, 1, Len(p)) = p

\* str.endswith(p)
EndsWith(s, p) == Len(p) <= Len(s) /\ SubSeq(s, Len(s) - Len(p) + 1, Len(s)) = p

\* str.endswith(tuple)
EndsWithAny(s, ps) == \E p \in ps : EndsWith(s, p)

\* sub in s
Contains(s, sub) ==
    \E i \in 0..(Len(s) - Len(sub)) : SubSeq(s, i + 1, i + Len(sub)) = sub

\* Python's < on strings: lexicographic by code point
RECURSIVE StrLess(_, _)
StrLess(s, t) ==
    IF t = <<>> THEN FALSE
    ELSE IF s = <<>> THEN TRUE
    ELSE IF s[1] = t[1] THEN StrLess(Tail(s), Tail(t))
    ELSE Ord(s[1]) < Ord(t[1])

\* str(bool)
StrOfBool(b) == IF b THEN <<"T", "r", "u", "e">> ELSE <<"F", "a", "l", "s", "e">>

\* the decimal digits of n >= 0
RECURSIVE Digits(_)
Digits(n) ==
    IF n < 10 THEN << Ascii[n + 2] >>
    ELSE Digits(n \div 10) \o << Ascii[(n % 10) + 2] >>

\* format(n, "0{w}d")
RECURSIVE ZeroPad(_, _)
ZeroPad(s, w) == IF Len(s) >= w THEN s ELSE ZeroPad(<<"0">> \o s, w)

\* f"{n:03d}"
Pad3(n) == ZeroPad(Digits(n), 3)

\* os.path.splitext on a file name: the extension starts at the last dot,
\* unless that dot is among the leading dots of the name.
LastDot(s) ==
    IF \E i \in 1..Len(s) : s[i] = "."
    THEN CHOOSE i \in 1..Len(s) : s[i] = "." /\ \A j \in (i + 1)..Len(s) : s[j] # "."
    ELSE 0

SplitExt(s) ==
    LET k == LastDot(s)
    IN IF k > 0 /\ \E j \in 1..(k - 1) : s[j] # "."
       THEN << SubSeq(s, 1, k - 1), SubSeq(s, k, Len(s)) >>
       ELSE << s, <<>> >>

\* os.path.join(dir, name), os.path.basename
Join(d, name) == [dir |-> d, name |-> name]
Basename(p) == p.name

\* the sort key: the name itself, or key=lambda x: os.path.splitext(x)[0]
SortKey(x, by_base) == IF by_base THEN SplitExt(x)[1] ELSE x

\* sorted(seq, key=..., reverse=rev) is stable in both directions: x goes
\* before the first element that must follow it, after all its equals.
InsertSorted(x, t, by_base, rev) ==
    LET After(e) == IF rev THEN StrLess(SortKey(e, by_base), SortKey(x, by_base))
                           ELSE StrLess(SortKey(x, by_base), SortKey(e, by_base))
        k == IF \E i \in 1..Len(t) : After(t[i])
             THEN CHOOSE i \in 1..Len(t) : After(t[i]) /\ \A j \in 1..(i - 1) : ~After(t[j])
             ELSE Len(t) + 1
    IN SubSeq(t, 1, k - 1) \o <<x>> \o SubSeq(t, k, Len(t))

\* a descending order made by reversing the ascending one: equal keys change places
SortedByReversal(s, by_base, rev) ==
    LET F[i \in 0..Len(s)] ==
            IF i = 0 THEN <<>> ELSE InsertSorted(s[i], F[i - 1], by_base, FALSE)
        up == F[Len(s)]
    IN IF rev THEN [i \in 1..Len(s) |-> up[Len(s) + 1 - i]] ELSE up

Sorted(s, by_base, rev) ==
    LET F[i \in 0..Len(s)] ==
            IF i = 0 THEN <<>> ELSE InsertSorted(s[i], F[i - 1], by_base, rev)
    IN F[Len(s)]

\* the orders in which a directory may enumerate its entries: any order
RECURSIVE Listings(_)
Listings(dir) ==
    IF dir = {} THEN { <<>> }
    ELSE UNION { { <<x>> \o rest : rest \in Listings(dir \ {x}) } : x \in dir }

Range(s) == { s[i] : i \in 1..Len(s) }

----------------------------------------------------------------------------
(* The file system and the state shared by the three programs *)

InDir == "in"       \* the input folder named on the command line
OutDirId == "out"   \* the folder named by --output

Files(d) == IF d = InDir THEN Range(folder) ELSE IF d = OutDirId THEN outDir ELSE {}

\* the folders a run may start on: at most max of the names, in any order
Folders(names, max) ==
    UNION { Listings(d) : d \in { e \in SUBSET names : Cardinality(e) <= max } }

\* open(path, "w") in the input folder: a new file becomes the last entry.
\* (No program lists a folder for files that it creates itself, so the place
\* of a new entry is never observed.)
Create(dir, name) == IF name \in Range(dir) THEN dir ELSE Append(dir, name)

\* a path names a directory when its file name is empty
DirPath(d) == [dir |-> d, name |-> <<>>]

\* os.path.isfile, os.path.isdir, os.path.exists
IsFile(p) == p.name # <<>> /\ p.name \in Files(p.dir)
IsDir(p) == p.name = <<>> /\ p.dir \in {InDir, OutDirId}
Exists(p) == IsFile(p) \/ IsDir(p)

NoPrev == [pc |-> "none", log |-> <<>>, outcomes |-> <<>>]
NoReport == [printed |-> FALSE]
NoSeg == [duration |-> 0, num_segments |-> 0, i |-> 0, rc |-> "ok"]
NoCnt == [successful |-> 0, failed |-> 0, skipped |-> 0, total_segments |-> 0]

\* the state of a program that has not started its work yet
FreshRun ==
    /\ pc = "start"
    /\ items = <<>>
    /\ idx = 0
    /\ log = <<>>
    /\ outcomes = <<>>
    /\ cnt = NoCnt
    /\ report = NoReport
    /\ seg = NoSeg
    /\ hb = <<>>
    /\ stopEv = <<>>
    /\ term = <<>>
    /\ joinedAt = <<>>
    /\ unified = <<>>

\* The same command line is run again, on the files the earlier run left.
Rerun ==
    /\ pc \in {"done", "raised"}
    /\ runNo < MaxRuns
    /\ runNo' = runNo + 1
    /\ prev' = [pc |-> pc, log |-> log, outcomes |-> outcomes]
    /\ pc' = "start"
    /\ items' = <<>>
    /\ idx' = 0
    /\ log' = <<>>
    /\ outcomes' = <<>>
    /\ cnt' = NoCnt
    /\ report' = NoReport
    /\ seg' = NoSeg
    /\ hb' = <<>>
    /\ stopEv' = <<>>
    /\ term' = <<>>
    /\ joinedAt' = <<>>
    /\ unified' = <<>>
    /\ UNCHANGED <<folder, outDir, args, written, clock>>

----------------------------------------------------------------------------
(* video_converter.py *)

VIDEO_EXTENSIONS ==
    { <<".", "m", "p", "4">>, <<".", "m", "o", "v">>, <<".", "a", "v", "i">>,
      <<".", "m", "k", "v">>, <<".", "w", "e", "b", "m">>, <<".", "f", "l", "v">>,
      <<".", "w", "m", "v">>, <<".", "m", "4", "v">>, <<".", "m", "p", "g">>,
      <<".", "m", "p", "e", "g">> }

\* the names a video folder may hold, and the names a command line may give
VideoNames ==
    { <<"a", ".", "m", "p", "4">>, <<"b", ".", "m", "p", "4">>,
      <<"a", ".", "m", "o", "v">>, <<"c", ".", "M", "P", "4">>,
      <<"n", ".", "t", "x", "t">> }

M4A == <<"m", "4", "a">>

get_video_files(path, specific_file, listing) ==
    IF IsFile(path)
    THEN IF EndsWithAny(Lower(path.name), VIDEO_EXTENSIONS) THEN <<path>> ELSE <<>>
    ELSE IF IsDir(path)
    THEN IF specific_file # <<>>
         THEN LET file_path == Join(path.dir, specific_file)
              IN IF IsFile(file_path) /\ EndsWithAny(Lower(file_path.name), VIDEO_EXTENSIONS)
                 THEN <<file_path>>
                 ELSE <<>>
         ELSE LET IsVideo(filename) == EndsWithAny(Lower(filename), VIDEO_EXTENSIONS)
                  names == SelectSeq(Sorted(listing, FALSE, FALSE), IsVideo)
              IN [i \in 1..Len(names) |-> Join(path.dir, names[i])]
    ELSE <<>>

\* output_path of convert_video_to_audio
ConvOutputPath(video_path, output_dir, output_format) ==
    Join(output_dir, SplitExt(Basename(video_path))[1] \o <<".">> \o output_format)

\* the early return of convert_video_to_audio
ConvSkips(output_path, force) == Exists(output_path) /\ ~force

\* the classification of main(): result is the boolean convert_video_to_audio returned
CountResult(c, result, force) ==
    IF result
    THEN IF ~force /\ Contains(StrOfBool(result), <<"S", "k", "i", "p", "p", "i", "n", "g">>)
         THEN [c EXCEPT !.skipped = @ + 1]
         ELSE [c EXCEPT !.successful = @ + 1]
    ELSE [c EXCEPT !.failed = @ + 1]

\* main(): parse the command line, list the videos
ConvStart ==
    /\ pc = "start"
    /\ LET video_files == get_video_files(args.path, args.file, folder)
       IN /\ items' = video_files
          /\ pc' = IF video_files = <<>> THEN "done" ELSE "loop"
    /\ idx' = 1
    /\ cnt' = NoCnt
    /\ UNCHANGED <<folder, outDir, runNo, args, prev, log, outcomes, report, seg,
                   hb, stopEv, term, joinedAt, unified, written, clock>>

\* one turn of the loop of main(): convert_video_to_audio, then the counters
ConvItem ==
    /\ pc = "loop"
    /\ idx <= Len(items)
    /\ \E rc \in {"ok", "error"} :
         LET video_path == items[idx]
             output_path == ConvOutputPath(video_path, OutDirId, args.format)
             skip == ConvSkips(output_path, args.force)
             result == skip \/ rc = "ok"
             what == IF skip THEN "skipped" ELSE IF rc = "ok" THEN "succeeded" ELSE "failed"
         IN /\ outDir' = IF ~skip /\ rc = "ok" THEN outDir \cup {output_path.name} ELSE outDir
            /\ log' = IF skip THEN log
                      ELSE Append(log, [input |-> video_path, out |-> output_path])
            /\ outcomes' = Append(outcomes, [item |-> video_path, out |-> output_path,
                                             what |-> what])
            /\ cnt' = CountResult(cnt, result, args.force)
    /\ idx' = idx + 1
    /\ UNCHANGED <<folder, runNo, args, prev, pc, items, report, seg,
                   hb, stopEv, term, joinedAt, unified, written, clock>>

\* the summary of main()
ConvSummary ==
    /\ pc = "loop"
    /\ idx > Len(items)
    /\ report' = [printed |-> TRUE,
                  total |-> Len(items),
                  converted |-> cnt.successful,
                  skippedShown |-> cnt.skipped > 0,
                  skipped |-> Len(items) - cnt.successful - cnt.failed,
                  failedShown |-> cnt.failed > 0,
                  failed |-> cnt.failed]
    /\ pc' = "done"
    /\ UNCHANGED <<folder, outDir, runNo, args, prev, items, idx, log, outcomes, cnt,
                   seg, hb, stopEv, term, joinedAt, unified, written, clock>>

ConvArgs ==
    { [tool |-> "convert", path |-> p, file |-> f, format |-> M4A, force |-> fc] :
        p \in {DirPath(InDir)} \cup { Join(InDir, n) : n \in VideoNames },
        f \in {<<>>} \cup VideoNames,
        fc \in BOOLEAN }

InitConvert ==
    /\ folder \in Folders(VideoNames, MaxFiles)
    /\ outDir \in { d \in SUBSET { <<"a", ".", "m", "4", "a">> } : TRUE }
    /\ args \in { a \in ConvArgs : a.path.name # <<>> => a.file = <<>> }
    /\ runNo = 1
    /\ prev = NoPrev
    /\ FreshRun
    /\ written = <<>>
    /\ clock = 0

NextConvert == ConvStart \/ ConvItem \/ ConvSummary \/ Rerun

SpecConvert == InitConvert /\ [][NextConvert]_vars

----------------------------------------------------------------------------
(* audio_splitter.py *)

AUDIO_EXTENSIONS == { <<".", "m", "4", "a">>, <<".", "o", "p", "u", "s">> }

A_M4A == <<"a", ".", "m", "4", "a">>
B_M4A == <<"b", ".", "m", "4", "a">>
A_OPUS == <<"a", ".", "o", "p", "u", "s">>
C_M4A_UPPER == <<"c", ".", "M", "4", "A">>
N_TXT == <<"n", ".", "t", "x", "t">>

\* the names an audio folder may hold, and the names a command line may give
AudioNames == { A_M4A, B_M4A, A_OPUS, C_M4A_UPPER, N_TXT }

\* Durations are counted in half seconds: ffprobe reports a float.
HalfSeconds == 2

\* what ffprobe reports for each file, in half seconds
DurationOf(name) ==
    CASE name = A_M4A -> 2900
      [] name = B_M4A -> 21
      [] name = A_OPUS -> 1200
      [] OTHER -> 2401

\* --segment-length: the default, and a shorter one
SegLens == {150, 600}

\* a division that rounds down where math.ceil rounds up
NumSegmentsFloor(duration, segment_length) == duration \div (HalfSeconds * segment_length)

\* math.ceil(duration / segment_length), the duration in half seconds
NumSegments(duration, segment_length) ==
    LET d == HalfSeconds * segment_length
    IN IF duration % d = 0 THEN duration \div d ELSE duration \div d + 1

\* output_filename of split_audio_file for the loop index i
SegmentName(base_name, i, output_format) ==
    base_name \o <<"_", "p", "a", "r", "t">> \o Pad3(i + 1) \o <<".">> \o output_format

IsAudio(filename) == EndsWithAny(Lower(filename), AUDIO_EXTENSIONS)

\* audio_files of main(): a list, or "error" when main() returned early
SplitAudioFiles(input_folder, file, listing) ==
    IF file # <<>>
    THEN LET file_path == IF IsFile(Join("cwd", file)) THEN Join("cwd", file)
                          ELSE Join(input_folder.dir, file)
         IN IF IsFile(file_path) /\ IsAudio(file_path.name) THEN <<file_path>> ELSE <<>>
    ELSE LET names == SelectSeq(listing, IsAudio)
         IN [i \in 1..Len(names) |-> Join(input_folder.dir, names[i])]

\* main(): parse the command line, list the audio files
SplitStart ==
    /\ pc = "start"
    /\ LET audio_files == SplitAudioFiles(args.input_folder, args.file, folder)
       IN /\ items' = audio_files
          /\ pc' = IF audio_files = <<>> THEN "done" ELSE "probe"
    /\ idx' = 1
    /\ cnt' = NoCnt
    /\ UNCHANGED <<folder, outDir, runNo, args, prev, log, outcomes, report, seg,
                   hb, stopEv, term, joinedAt, unified, written, clock>>

\* split_audio_file up to its loop: get_duration and num_segments.
\* float() raises when ffprobe printed no duration. A file is either one
\* ffmpeg can cut (rc "ok") or one every ffmpeg call fails on (rc "error").
SplitProbe ==
    /\ pc = "probe"
    /\ idx <= Len(items)
    /\ \E probed \in BOOLEAN, rc \in {"ok", "error"} :
         IF probed
         THEN LET duration == DurationOf(Basename(items[idx]))
              IN /\ seg' = [duration |-> duration,
                            num_segments |-> NumSegments(duration, args.segment_length),
                            i |-> 0, rc |-> rc]
                 /\ pc' = "segments"
         ELSE /\ seg' = seg
              /\ pc' = "raised"
    /\ UNCHANGED <<folder, outDir, runNo, args, prev, items, idx, log, outcomes, cnt,
                   report, hb, stopEv, term, joinedAt, unified, written, clock>>

\* one turn of the loop of split_audio_file: one ffmpeg call, its result ignored
SplitSegment ==
    /\ pc = "segments"
    /\ seg.i < seg.num_segments
    /\ LET file_path == items[idx]
           base_name == SplitExt(Basename(file_path))[1]
           start_time == seg.i * args.segment_length
           output_path == Join(OutDirId, SegmentName(base_name, seg.i, args.format))
       IN /\ log' = Append(log, [input |-> file_path, ss |-> start_time,
                                 t |-> args.segment_length, out |-> output_path])
          /\ outDir' = IF seg.rc = "ok" THEN outDir \cup {output_path.name} ELSE outDir
    /\ seg' = [seg EXCEPT !.i = @ + 1]
    /\ UNCHANGED <<folder, runNo, args, prev, pc, items, idx, outcomes, cnt,
                   report, hb, stopEv, term, joinedAt, unified, written, clock>>

\* split_audio_file returns num_segments; main() adds it up
SplitFileDone ==
    /\ pc = "segments"
    /\ seg.i >= seg.num_segments
    /\ cnt' = [cnt EXCEPT !.total_segments = @ + seg.num_segments]
    /\ outcomes' = Append(outcomes, [item |-> items[idx], what |-> "succeeded",
                                     duration |-> seg.duration,
                                     segments |-> seg.num_segments, rc |-> seg.rc])
    /\ idx' = idx + 1
    /\ pc' = "probe"
    /\ UNCHANGED <<folder, outDir, runNo, args, prev, items, log, report, seg,
                   hb, stopEv, term, joinedAt, unified, written, clock>>

\* the summary of main()
SplitSummary ==
    /\ pc = "probe"
    /\ idx > Len(items)
    /\ report' = [printed |-> TRUE, processed |-> Len(items),
                  created |-> cnt.total_segments]
    /\ pc' = "done"
    /\ UNCHANGED <<folder, outDir, runNo, args, prev, items, idx, log, outcomes, cnt,
                   seg, hb, stopEv, term, joinedAt, unified, written, clock>>

SplitArgs ==
    { [tool |-> "split", input_folder |-> DirPath(InDir), file |-> f,
       segment_length |-> l, format |-> M4A] :
        f \in {<<>>} \cup AudioNames, l \in SegLens }

InitSplit ==
    /\ folder \in Folders(AudioNames, MaxFiles)
    /\ outDir = {}
    /\ args \in SplitArgs
    /\ runNo = 1
    /\ prev = NoPrev
    /\ FreshRun
    /\ written = <<>>
    /\ clock = 0

NextSplit == SplitStart \/ SplitProbe \/ SplitSegment \/ SplitFileDone \/ SplitSummary

SpecSplit == InitSplit /\ [][NextSplit]_vars

\* the splitter run again with the same command line
NextSplitAgain == NextSplit \/ Rerun

SpecSplitAgain == InitSplit /\ [][NextSplitAgain]_vars

----------------------------------------------------------------------------
(* transcribe.py: transcribing, with the progress thread.                    *)
(* transcribe_single_file runs on its one file the statements that the loop *)
(* of transcribe_folder runs on each file, so after TSStart the actions of  *)
(* the loop model both functions.                                           *)

TXT == <<".", "t", "x", "t">>
A_TXT == <<"a", ".", "t", "x", "t">>

\* the names the folder of a transcription may hold at the start
TranscribeNames == AudioNames \cup {A_TXT}

\* txt_path of transcribe_single_file and of transcribe_folder
TxtPath(output_dir, filename) == Join(output_dir, SplitExt(filename)[1] \o TXT)

Msg == [by |-> 0, what |-> "msg"]

\* the frames the progress thread i has drawn
FramesOf(i) == Cardinality({ k \in 1..Len(term) : term[k] = [by |-> i, what |-> "frame"] })

\* threading.Thread.is_alive
IsAlive(i) == hb[i] \notin {"none", "dead"}

\* a join that does not wait for the thread
JoinNoWait(i) == TRUE

\* threading.Thread.join returns once the thread has ended
JoinReturns(i) == ~IsAlive(i)

\* audio_files of transcribe_folder
FolderAudioFiles(listing, unify) ==
    LET audio_files == SelectSeq(listing, IsAudio)
    IN IF unify # "" THEN Sorted(audio_files, TRUE, unify = "desc")
       ELSE audio_files

\* __main__ with a folder, then transcribe_folder up to its loop
TFStart ==
    /\ pc = "start"
    /\ IsDir(args.path)
    /\ LET audio_files == FolderAudioFiles(folder, args.unify)
       IN /\ items' = [i \in 1..Len(audio_files) |-> Join(args.path.dir, audio_files[i])]
          /\ pc' = IF audio_files = <<>> THEN "done" ELSE "loop"
          /\ hb' = [i \in 1..Len(audio_files) |-> "none"]
          /\ stopEv' = [i \in 1..Len(audio_files) |-> FALSE]
          /\ joinedAt' = [i \in 1..Len(audio_files) |-> -1]
    /\ idx' = 1
    /\ UNCHANGED <<folder, outDir, runNo, args, prev, log, outcomes, cnt, report, seg,
                   term, unified, written, clock>>

\* __main__ with a file, then transcribe_single_file up to the existence check:
\* an extension outside .m4a/.opus only prints a warning
TSStart ==
    /\ pc = "start"
    /\ IsFile(args.path)
    /\ items' = <<args.path>>
    /\ pc' = "loop"
    /\ hb' = <<"none">>
    /\ stopEv' = <<FALSE>>
    /\ joinedAt' = <<-1>>
    /\ idx' = 1
    /\ term' = IF IsAudio(args.path.name) THEN term ELSE Append(term, Msg)
    /\ UNCHANGED <<folder, outDir, runNo, args, prev, log, outcomes, cnt, report, seg,
                   unified, written, clock>>

\* __main__: the path is neither a file nor a folder
TNoPath ==
    /\ pc = "start"
    /\ ~IsDir(args.path) /\ ~IsFile(args.path)
    /\ pc' = "exit"
    /\ UNCHANGED <<folder, outDir, runNo, args, prev, items, idx, log, outcomes, cnt,
                   report, seg, hb, stopEv, term, joinedAt, unified, written, clock>>

\* the transcript exists: the item's turn ends without the engine
TSkip ==
    /\ pc = "loop"
    /\ idx <= Len(items)
    /\ Exists(TxtPath(items[idx].dir, Basename(items[idx])))
    /\ term' = Append(term, Msg)
    /\ unified' = IF args.unify # ""
                  THEN Append(unified, [filename |-> Basename(items[idx]),
                                        base_name |-> SplitExt(Basename(items[idx]))[1]])
                  ELSE unified
    /\ outcomes' = Append(outcomes, [item |-> items[idx], what |-> "skipped"])
    /\ idx' = idx + 1
    /\ UNCHANGED <<folder, outDir, runNo, args, prev, pc, items, log, cnt, report, seg,
                   hb, stopEv, joinedAt, written, clock>>

\* no transcript: announce the item, create and start its progress thread
TBegin ==
    /\ pc = "loop"
    /\ idx <= Len(items)
    /\ ~Exists(TxtPath(items[idx].dir, Basename(items[idx])))
    /\ term' = Append(term, Msg)
    /\ stopEv' = [stopEv EXCEPT ![idx] = FALSE]
    /\ hb' = [hb EXCEPT ![idx] = "test"]
    /\ pc' = "transcribe"
    /\ UNCHANGED <<folder, outDir, runNo, args, prev, items, idx, log, outcomes, cnt,
                   report, seg, joinedAt, unified, written, clock>>

\* model.transcribe returns or raises
TTranscribe ==
    /\ pc = "transcribe"
    /\ \E ok \in BOOLEAN :
         pc' = IF ok THEN "set" ELSE "except"
    /\ log' = Append(log, [input |-> items[idx]])
    /\ UNCHANGED <<folder, outDir, runNo, args, prev, items, idx, outcomes, cnt,
                   report, seg, hb, stopEv, term, joinedAt, unified, written, clock>>

\* stop_progress.set()
TSet ==
    /\ pc = "set"
    /\ stopEv' = [stopEv EXCEPT ![idx] = TRUE]
    /\ pc' = "join"
    /\ UNCHANGED <<folder, outDir, runNo, args, prev, items, idx, log, outcomes, cnt,
                   report, seg, hb, term, joinedAt, unified, written, clock>>

\* progress_thread.join()
TJoin ==
    /\ pc = "join"
    /\ JoinReturns(idx)
    /\ joinedAt' = [joinedAt EXCEPT ![idx] = Len(term)]
    /\ pc' = "save"
    /\ UNCHANGED <<folder, outDir, runNo, args, prev, items, idx, log, outcomes, cnt,
                   report, seg, hb, stopEv, term, unified, written, clock>>

\* the messages after the join and the write of the transcript; open() may raise
TSave ==
    /\ pc = "save"
    /\ \E wrote \in BOOLEAN :
         LET txt_path == TxtPath(items[idx].dir, Basename(items[idx]))
         IN IF wrote
            THEN /\ term' = term \o <<Msg, Msg>>
                 /\ folder' = Create(folder, txt_path.name)
                 /\ unified' = IF args.unify # ""
                               THEN Append(unified,
                                           [filename |-> Basename(items[idx]),
                                            base_name |-> SplitExt(Basename(items[idx]))[1]])
                               ELSE unified
                 /\ outcomes' = Append(outcomes, [item |-> items[idx], what |-> "succeeded"])
                 /\ idx' = idx + 1
                 /\ pc' = "loop"
            ELSE /\ term' = Append(term, Msg)
                 /\ pc' = "except"
                 /\ UNCHANGED <<folder, unified, outcomes, idx>>
    /\ UNCHANGED <<outDir, runNo, args, prev, items, log, cnt, report, seg,
                   hb, stopEv, joinedAt, written, clock>>

\* an except clause that re-raises at once, leaving the progress thread alone
TExceptNoStop ==
    /\ pc = "except"
    /\ pc' = "reraise"
    /\ UNCHANGED <<folder, outDir, runNo, args, prev, items, idx, log, outcomes, cnt,
                   report, seg, hb, stopEv, term, joinedAt, unified, written, clock>>

\* except: stop_progress.set(), then is_alive()
TExcept ==
    /\ pc = "except"
    /\ stopEv' = [stopEv EXCEPT ![idx] = TRUE]
    /\ pc' = IF IsAlive(idx) THEN "except_join" ELSE "reraise"
    /\ UNCHANGED <<folder, outDir, runNo, args, prev, items, idx, log, outcomes, cnt,
                   report, seg, hb, term, joinedAt, unified, written, clock>>

\* except: progress_thread.join()
TExceptJoin ==
    /\ pc = "except_join"
    /\ JoinReturns(idx)
    /\ joinedAt' = [joinedAt EXCEPT ![idx] = Len(term)]
    /\ pc' = "reraise"
    /\ UNCHANGED <<folder, outDir, runNo, args, prev, items, idx, log, outcomes, cnt,
                   report, seg, hb, stopEv, term, unified, written, clock>>

\* except: raise e, which leaves the function and ends the program
TReraise ==
    /\ pc = "reraise"
    /\ pc' = "raised"
    /\ UNCHANGED <<folder, outDir, runNo, args, prev, items, idx, log, outcomes, cnt,
                   report, seg, hb, stopEv, term, joinedAt, unified, written, clock>>

----------------------------------------------------------------------------
(* transcribe.py: show_animated_progress, run by the progress thread i *)

\* a loop test that never looks at the stop event
HbTestIgnoresStop(i) ==
    /\ hb[i] = "test"
    /\ FramesOf(i) < MaxFrames
    /\ hb' = [hb EXCEPT ![i] = "frame"]
    /\ UNCHANGED <<folder, outDir, runNo, args, prev, pc, items, idx, log, outcomes, cnt,
                   report, seg, stopEv, term, joinedAt, unified, written, clock>>

\* while not stop_event.is_set()
HbTest(i) ==
    /\ hb[i] = "test"
    /\ stopEv[i] \/ FramesOf(i) < MaxFrames
    /\ hb' = [hb EXCEPT ![i] = IF stopEv[i] THEN "clear" ELSE "frame"]
    /\ UNCHANGED <<folder, outDir, runNo, args, prev, pc, items, idx, log, outcomes, cnt,
                   report, seg, stopEv, term, joinedAt, unified, written, clock>>

\* sys.stdout.write of one frame
HbFrame(i) ==
    /\ hb[i] = "frame"
    /\ term' = Append(term, [by |-> i, what |-> "frame"])
    /\ hb' = [hb EXCEPT ![i] = "sleep"]
    /\ UNCHANGED <<folder, outDir, runNo, args, prev, pc, items, idx, log, outcomes, cnt,
                   report, seg, stopEv, joinedAt, unified, written, clock>>

\* time.sleep(0.1) and the next spinner index
HbSleep(i) ==
    /\ hb[i] = "sleep"
    /\ hb' = [hb EXCEPT ![i] = "test"]
    /\ UNCHANGED <<folder, outDir, runNo, args, prev, pc, items, idx, log, outcomes, cnt,
                   report, seg, stopEv, term, joinedAt, unified, written, clock>>

\* the line clear, after which the thread ends
HbClear(i) ==
    /\ hb[i] = "clear"
    /\ term' = Append(term, [by |-> i, what |-> "clear"])
    /\ hb' = [hb EXCEPT ![i] = "dead"]
    /\ UNCHANGED <<folder, outDir, runNo, args, prev, pc, items, idx, log, outcomes, cnt,
                   report, seg, stopEv, joinedAt, unified, written, clock>>

----------------------------------------------------------------------------
(* transcribe.py: the unified transcript *)

UNIFIED_TRANSCRIPT ==
    <<"u", "n", "i", "f", "i", "e", "d", "_", "t", "r", "a", "n", "s", "c", "r", "i", "p", "t">>

\* datetime.now().strftime("%Y%m%d_%H%M%S") at clock second t of the modelled minute
Timestamp(t) ==
    <<"2", "0", "2", "5", "0", "1", "0", "1", "_", "0", "0", "0", "0">> \o ZeroPad(Digits(t), 2)

\* unified_file_path of unify_transcripts and of transcribe_folder
UnifiedName(sort_order, t) ==
    UNIFIED_TRANSCRIPT
        \o (IF sort_order = "desc" THEN <<"_", "d", "e", "s", "c">> ELSE <<"_", "a", "s", "c">>)
        \o <<"_">> \o Timestamp(t) \o TXT

\* a candidate filter that forgets the reserved prefix
IsCandidateNoPrefix(f) == EndsWith(Lower(f), TXT)

\* the candidate filter of unify_transcripts
IsCandidate(f) == EndsWith(Lower(f), TXT) /\ ~StartsWith(f, UNIFIED_TRANSCRIPT)

\* a choice of candidates that takes every .txt file of the folder
UnifyCandidatesAnyTxt(listing, sort_order) ==
    LET IsTxt(f) == EndsWith(Lower(f), TXT)
    IN Sorted(SelectSeq(listing, IsTxt), TRUE, sort_order = "desc")

\* txt_files of unify_transcripts, sorted
UnifyCandidates(listing, sort_order) ==
    Sorted(SelectSeq(listing, IsCandidate), TRUE, sort_order = "desc")

\* original_file of unify_transcripts
OriginalFile(d, base_name) ==
    IF Exists(Join(d, base_name \o <<".", "m", "4", "a">>))
    THEN base_name \o <<".", "m", "4", "a">>
    ELSE IF Exists(Join(d, base_name \o <<".", "o", "p", "u", "s">>))
    THEN base_name \o <<".", "o", "p", "u", "s">>
    ELSE <<"U", "n", "k", "n", "o", "w", "n">>

\* the end of transcribe_folder: the unified transcript, if asked for
TFinish ==
    /\ pc = "loop"
    /\ idx > Len(items)
    /\ IF args.unify # "" /\ unified # <<>>
       THEN LET name == UnifiedName(args.unify, clock)
            IN /\ folder' = Create(folder, name)
               /\ written' = Append(written, [name |-> name, run |-> runNo])
       ELSE UNCHANGED <<folder, written>>
    /\ pc' = "done"
    /\ UNCHANGED <<outDir, runNo, args, prev, items, idx, log, outcomes, cnt, report, seg,
                   hb, stopEv, term, joinedAt, unified, clock>>

\* transcribe_folder without a model: unify_transcripts up to its loop
UnifyStart ==
    /\ pc = "start"
    /\ LET txt_files == UnifyCandidates(folder, args.unify)
       IN /\ items' = [i \in 1..Len(txt_files) |-> Join(args.path.dir, txt_files[i])]
          /\ pc' = IF txt_files = <<>> THEN "done" ELSE "read"
    /\ idx' = 1
    /\ UNCHANGED <<folder, outDir, runNo, args, prev, log, outcomes, cnt, report, seg,
                   hb, stopEv, term, joinedAt, unified, written, clock>>

\* one turn of the loop of unify_transcripts: read a transcript, or report that
\* it cannot be read
UnifyRead ==
    /\ pc = "read"
    /\ idx <= Len(items)
    /\ \E readable \in BOOLEAN :
         LET filename == Basename(items[idx])
             base_name == SplitExt(filename)[1]
         IN unified' = IF readable
                       THEN Append(unified,
                                   [filename |-> OriginalFile(items[idx].dir, base_name),
                                    base_name |-> base_name, source |-> filename])
                       ELSE unified
    /\ idx' = idx + 1
    /\ UNCHANGED <<folder, outDir, runNo, args, prev, pc, items, log, outcomes, cnt,
                   report, seg, hb, stopEv, term, joinedAt, written, clock>>

\* the end of unify_transcripts: write the unified transcript
UnifyWrite ==
    /\ pc = "read"
    /\ idx > Len(items)
    /\ IF unified # <<>>
       THEN LET name == UnifiedName(args.unify, clock)
            IN /\ folder' = Create(folder, name)
               /\ written' = Append(written, [name |-> name, run |-> runNo])
       ELSE UNCHANGED <<folder, written>>
    /\ pc' = "done"
    /\ UNCHANGED <<outDir, runNo, args, prev, items, idx, log, outcomes, cnt, report, seg,
                   hb, stopEv, term, joinedAt, unified, clock>>

\* the wall clock moves on. A run reads the clock once, when it names its
\* document, so it is enough to let time pass between two runs.
Tick ==
    /\ pc = "done"
    /\ clock < MaxClock
    /\ clock' = clock + 1
    /\ UNCHANGED <<folder, outDir, runNo, args, prev, pc, items, idx, log, outcomes, cnt,
                   report, seg, hb, stopEv, term, joinedAt, unified, written>>

\* the program is started again, with the sort order of the new command line
UnifyAgain ==
    /\ pc = "done"
    /\ runNo < MaxRuns
    /\ runNo' = runNo + 1
    /\ \E order \in {"asc", "desc"} : args' = [args EXCEPT !.unify = order]
    /\ prev' = [pc |-> pc, log |-> log, outcomes |-> outcomes]
    /\ pc' = "start"
    /\ items' = <<>>
    /\ idx' = 0
    /\ unified' = <<>>
    /\ UNCHANGED <<folder, outDir, log, outcomes, cnt, report, seg, hb, stopEv, term,
                   joinedAt, written, clock>>

----------------------------------------------------------------------------
(* The programs of transcribe.py *)

TranscribeArgs ==
    { [tool |-> "transcribe", path |-> p, model |-> "medium", unify |-> u] :
        p \in {DirPath(InDir)} \cup { Join(InDir, n) : n \in TranscribeNames },
        u \in {"", "asc", "desc"} }

InitTranscribe ==
    /\ folder \in Folders(TranscribeNames, MaxFiles)
    /\ outDir = {}
    /\ args \in { a \in TranscribeArgs : a.path.name # <<>> => a.unify = "" }
    /\ runNo = 1
    /\ prev = NoPrev
    /\ FreshRun
    /\ written = <<>>
    /\ clock = 0

NextTranscribe ==
    \/ TFStart \/ TSStart \/ TNoPath
    \/ TSkip \/ TBegin \/ TTranscribe \/ TSet \/ TJoin \/ TSave
    \/ TExcept \/ TExceptJoin \/ TReraise
    \/ TFinish
    \/ \E i \in DOMAIN hb : HbTest(i)
    \/ \E i \in DOMAIN hb : HbFrame(i)
    \/ \E i \in DOMAIN hb : HbSleep(i)
    \/ \E i \in DOMAIN hb : HbClear(i)

SpecTranscribe == InitTranscribe /\ [][NextTranscribe]_vars

\* transcribe.py given a file: __main__ calls transcribe_single_file
A_MP4 == <<"a", ".", "m", "p", "4">>

\* the names the folder may hold when a file is named, and the names a command
\* line may give
FileNames == TranscribeNames \cup {A_MP4}

InitTranscribeFile ==
    /\ folder \in Folders(FileNames, MaxFiles)
    /\ outDir = {}
    /\ args \in { [tool |-> "transcribe", path |-> Join(InDir, n), model |-> "medium",
                    unify |-> ""] : n \in FileNames }
    /\ runNo = 1
    /\ prev = NoPrev
    /\ FreshRun
    /\ written = <<>>
    /\ clock = 0

NextTranscribeFile ==
    \/ TSStart \/ TNoPath
    \/ TSkip \/ TBegin \/ TTranscribe \/ TSet \/ TJoin \/ TSave
    \/ TExcept \/ TExceptJoin \/ TReraise
    \/ TFinish
    \/ \E i \in DOMAIN hb : HbTest(i)
    \/ \E i \in DOMAIN hb : HbFrame(i)
    \/ \E i \in DOMAIN hb : HbSleep(i)
    \/ \E i \in DOMAIN hb : HbClear(i)

SpecTranscribeFile == InitTranscribeFile /\ [][NextTranscribeFile]_vars

\* one step of a progress thread
HbStep == \E i \in DOMAIN hb : HbTest(i) \/ HbFrame(i) \/ HbSleep(i) \/ HbClear(i)

\* The scheduler lets a progress thread that can run take its next step, and
\* lets the main thread leave join() once the thread it waits for has ended.
SpecTranscribeFair ==
    /\ InitTranscribeFile
    /\ [][NextTranscribeFile]_vars
    /\ WF_vars(HbStep)
    /\ WF_vars(TJoin)
    /\ WF_vars(TExceptJoin)

A_TXT_UPPER == <<"a", ".", "T", "X", "T">>
B_TXT == <<"b", ".", "t", "x", "t">>

\* a unified transcript that an earlier use of the program left in the folder
OLD_UNIFIED == UNIFIED_TRANSCRIPT \o <<"_", "a", "s", "c", "_">> \o Timestamp(0) \o TXT

\* the names the folder of a unification may hold at the start
UnifyNames == { A_TXT, B_TXT, A_TXT_UPPER, A_M4A, OLD_UNIFIED }

InitUnify ==
    /\ folder \in Folders(UnifyNames, MaxTxt)
    /\ outDir = {}
    /\ args \in { [tool |-> "unify", path |-> DirPath(InDir), model |-> "", unify |-> u] :
                    u \in {"asc", "desc"} }
    /\ runNo = 1
    /\ prev = NoPrev
    /\ FreshRun
    /\ written = <<>>
    /\ clock = 0

NextUnify == UnifyStart \/ UnifyRead \/ UnifyWrite \/ Tick \/ UnifyAgain

SpecUnify == InitUnify /\ [][NextUnify]_vars

----------------------------------------------------------------------------
(* Properties *)

\* how many items of this run had the outcome what
CountOf(what) == Cardinality({ k \in 1..Len(outcomes) : outcomes[k].what = what })

\* the run was asked for one explicit item: a file path, or --file
SingleItem == args.path.name # <<>> \/ ("file" \in DOMAIN args /\ args.file # <<>>)

\* the earlier run met no failure of the external operation
PrevRanClean ==
    \A k \in 1..Len(prev.outcomes) :
        /\ prev.outcomes[k].what # "failed"
        /\ "rc" \in DOMAIN prev.outcomes[k] => prev.outcomes[k].rc = "ok"

\* C1: a batch run executed a second time with the same inputs, the same
\* command line and no force invokes the external operation zero times and
\* classifies every item as skipped.
C1_SecondRunSkipsAll ==
    (runNo >= 2 /\ prev.pc = "done" /\ PrevRanClean /\ pc = "done")
        => /\ log = <<>>
           /\ \A k \in 1..Len(outcomes) : outcomes[k].what = "skipped"

\* C2: in a batch of several items a failing item does not end the run: the
\* exception does not leave the loop, and the run ends with one outcome per item.
C2_FailureIsolated ==
    (IsDir(args.path) /\ Len(items) > 1)
        => /\ pc \notin {"reraise", "raised"}
           /\ (pc = "done" => Len(outcomes) = Len(items))

\* C3: when the run was asked for one explicit item and the operation fails for
\* it, the run does not record the failure and end with its summary.
C3_SingleFailurePropagates ==
    (SingleItem /\ CountOf("failed") > 0) => (~report.printed /\ pc # "done")

\* C4: without an explicit item, the discovered items are in ascending order of
\* file name, and the operation is invoked on them in that order.
C4_DiscoverySorted ==
    (pc # "start" /\ args.file = <<>>)
        => /\ \A i, j \in 1..Len(items) :
                i < j => StrLess(Basename(items[i]), Basename(items[j]))
           /\ \A k, l \in 1..Len(log) :
                k < l => ~StrLess(Basename(log[l].input), Basename(log[k].input))

\* the three digits of k < 1000
ThreeDigits(k) == << Ascii[(k \div 100) + 2], Ascii[((k \div 10) % 10) + 2], Ascii[(k % 10) + 2] >>

\* the ffmpeg calls of this run that read the file p, in order
CallsOn(p) == LET Reads(e) == e.input = p IN SelectSeq(log, Reads)

\* C5: an item of duration D > 0 split with segment length L gets exactly
\* ceil(D/L) ffmpeg calls; the i-th (from 0) starts at i*L, has length L and
\* writes {base}_part{i+1 in three digits}.{format}.
C5_Segmentation ==
    \A j \in 1..Len(outcomes) :
        LET o == outcomes[j]
            calls == CallsOn(o.item)
            n == Len(calls)
            L == args.segment_length
            base == SubSeq(Basename(o.item), 1, LastDot(Basename(o.item)) - 1)
        IN /\ HalfSeconds * L * (n - 1) < o.duration
           /\ o.duration <= HalfSeconds * L * n
           /\ \A k \in 1..n :
                /\ calls[k].ss = (k - 1) * L
                /\ calls[k].t = L
                /\ calls[k].out.name =
                     base \o <<"_", "p", "a", "r", "t">> \o ThreeDigits(k) \o <<".">> \o args.format

\* C5 witness: 1450 seconds cut every 600 seconds gave part001, part002 and
\* part003, starting at 0, 600 and 1200.
C5_Witness ==
    /\ args.segment_length = 600
    /\ \E j \in 1..Len(outcomes) :
         LET calls == CallsOn(outcomes[j].item)
         IN /\ outcomes[j].duration = 1450 * HalfSeconds
            /\ Len(calls) = 3
            /\ <<calls[1].ss, calls[2].ss, calls[3].ss>> = <<0, 600, 1200>>
            /\ calls[1].out.name = <<"a", "_", "p", "a", "r", "t", "0", "0", "1", ".", "m", "4", "a">>
            /\ calls[2].out.name = <<"a", "_", "p", "a", "r", "t", "0", "0", "2", ".", "m", "4", "a">>
            /\ calls[3].out.name = <<"a", "_", "p", "a", "r", "t", "0", "0", "3", ".", "m", "4", "a">>

\* C6: the output paths of two distinct items of one run are distinct.
C6_DistinctOutputs ==
    \A i, j \in 1..Len(outcomes) :
        (i # j /\ outcomes[i].item # outcomes[j].item) => outcomes[i].out # outcomes[j].out

\* C7: once join() of a progress thread has returned, the thread has ended, its
\* last write was the line clear, and nothing it wrote follows what the main
\* thread wrote after the join.
C7_NoFrameAfterStop ==
    \A i \in DOMAIN hb :
        joinedAt[i] >= 0
            => /\ hb[i] = "dead"
               /\ \E k \in 1..joinedAt[i] :
                    /\ term[k] = [by |-> i, what |-> "clear"]
                    /\ \A m \in (k + 1)..Len(term) : term[m].by # i

\* C7 witness: a thread that drew a frame was joined, and the main thread has
\* written since.
C7_Witness ==
    \E i \in DOMAIN hb :
        /\ joinedAt[i] >= 0
        /\ FramesOf(i) >= 1
        /\ Len(term) > joinedAt[i]
        /\ term[Len(term)] = Msg

\* C8: no run of unify_transcripts takes a unified transcript written earlier
\* as one of its candidates.
C8_AggregateExcluded ==
    \A w \in 1..Len(written) :
        /\ \A k \in 1..Len(items) : Basename(items[k]) # written[w].name
        /\ \A k \in 1..Len(unified) : unified[k].source # written[w].name

\* C8 witness: a later run reads its candidates while a unified transcript of
\* an earlier run is in the folder.
C8_Witness ==
    /\ runNo >= 2
    /\ pc = "read"
    /\ unified # <<>>
    /\ \E w \in 1..Len(written) : written[w].run < runNo /\ written[w].name \in Range(folder)

\* C9: two runs never write the unified transcript to the same file name.
C9_NoOverwrite ==
    \A v, w \in 1..Len(written) : v # w => written[v].name # written[w].name

\* the Skipped count the summary shows: the line is printed only when
\* skipped > 0
ReportedSkipped == IF report.skippedShown THEN report.skipped ELSE 0

\* C10: the summary of a transcoding batch reports, for each status, the
\* number of items that had it.
C10_SummaryCounts ==
    report.printed
        => /\ report.converted = CountOf("succeeded")
           /\ ReportedSkipped = CountOf("skipped")
           /\ report.failed = CountOf("failed")
           /\ report.converted + ReportedSkipped + report.failed = report.total

\* the place of a file name in the enumeration of the folder
PlaceOf(name) == CHOOSE k \in 1..Len(folder) : folder[k] = name

\* C11: the sections unify_transcripts collects and writes are ordered by base
\* name, ascending for asc and descending for desc, and two sections with the
\* same base name are in the order in which the folder enumerates their files,
\* in both directions.
C11_AggregationOrder ==
    \A i, j \in 1..Len(unified) :
        i < j
            => /\ args.unify = "asc" => ~StrLess(unified[j].base_name, unified[i].base_name)
               /\ args.unify = "desc" => ~StrLess(unified[i].base_name, unified[j].base_name)
               /\ unified[i].base_name = unified[j].base_name
                    => PlaceOf(unified[i].source) < PlaceOf(unified[j].source)

\* C11 witness: a descending unified transcript was written from two
\* transcripts with the same base name.
C11_Witness ==
    /\ pc = "done"
    /\ args.unify = "desc"
    /\ \E w \in 1..Len(written) : written[w].run = runNo
    /\ Len(unified) = 2
    /\ unified[1].base_name = unified[2].base_name
    /\ unified[1].source # unified[2].source

\* C12: when the run is given one explicit item that does not exist, or whose
\* extension is not among the supported ones, the run is refused and the
\* external operation is never invoked for that item.
C12_ExplicitItemValidated ==
    (args.path.name # <<>> /\ (~IsFile(args.path) \/ ~IsAudio(args.path.name)))
        => \A k \in 1..Len(log) : log[k].input # args.path

\* the folder holds no transcript to unify: every entry either is no .txt file
\* or bears the prefix of a unified transcript
NoInput ==
    \A k \in 1..Len(folder) :
        ~EndsWith(Lower(folder[k]), TXT) \/ StartsWith(folder[k], UNIFIED_TRANSCRIPT)

\* C13: while the folder holds no candidate transcript (unified transcripts of
\* earlier runs not counted), no step of unify_transcripts creates or changes a
\* file of the folder, and nothing is collected for writing.
C13_NoInputNoWrite ==
    [][NoInput => (folder' = folder /\ written' = written /\ unified' = <<>>)]_vars

\* C13 witness: a run has returned on a folder whose only .txt file is a
\* unified transcript of an earlier use.
C13_Witness ==
    /\ pc = "done"
    /\ items = <<>>
    /\ NoInput
    /\ OLD_UNIFIED \in Range(folder)
    /\ Len(folder) = 2

\* C14: the external operation is invoked for an item only if, when the item's
\* turn began, its output did not exist or force was set. The splitter has no
\* force option, so none of its ffmpeg calls repeats a call of the earlier run
\* whose output file is in place.
C14_InvokedOnlyIfAbsent ==
    [][Len(log') > Len(log)
          => ~ /\ Exists(log'[Len(log')].out)
               /\ \E k \in 1..Len(prev.log) : prev.log[k] = log'[Len(log')]]_vars

\* the progress threads that are alive
AliveThreads == { i \in DOMAIN hb : IsAlive(i) }

\* C15: at most one progress thread is alive, and it is the thread of the item
\* in progress: when the loop turns to the next item, and when the function
\* returns or raises, on the success path as on the failure path of
\* model.transcribe, every progress thread started so far has ended.
C15_OneHeartbeat ==
    /\ Cardinality(AliveThreads) <= 1
    /\ \A i \in AliveThreads :
         /\ i = idx
         /\ pc \in {"transcribe", "set", "join", "except", "except_join"}
    /\ pc \in {"join", "save"} => stopEv[idx]
    /\ pc \in {"except_join", "reraise", "raised"} => stopEv[idx]

\* C15 witness: the first item's thread ended on the success path, the second
\* item's thread drew a frame, model.transcribe raised, the except clause
\* joined the thread and the function has raised.
C15_Witness ==
    /\ pc = "raised"
    /\ idx = 2
    /\ hb[1] = "dead" /\ joinedAt[1] >= 0
    /\ hb[2] = "dead" /\ joinedAt[2] = Len(term)
    /\ FramesOf(2) >= 1
    /\ Len(log) = 2

\* the progress thread i has written its line clear and ended
Cleared(i) ==
    /\ i \in DOMAIN hb
    /\ hb[i] = "dead"
    /\ \E k \in 1..Len(term) : term[k] = [by |-> i, what |-> "clear"]

\* C16: under fair scheduling, once the stop event of a live progress thread is
\* set the thread writes its line clear and ends, wherever in its loop it was,
\* and the join() of the main thread, on the success path and in the except
\* clause, returns.
C16_StopTerminates ==
    /\ \A i \in 1..MaxFiles :
         (i \in DOMAIN hb /\ stopEv[i] /\ IsAlive(i)) ~> Cleared(i)
    /\ (pc = "join") ~> (pc = "save" /\ Cleared(idx))
    /\ (pc = "except_join") ~> (pc = "reraise" /\ Cleared(idx))

\* C16 witness: the stop event was set while the thread slept after a frame,
\* and the main thread waits in join().
C16_Witness ==
    /\ pc = "join"
    /\ stopEv[idx]
    /\ hb[idx] = "sleep"
    /\ FramesOf(idx) >= 1

====
